---- MODULE Spec2Model ----
(***************************************************************************)
(* A model of the osui terminal user-interface library: the Value override *)
(* cell (src/src/lib.rs), the Document command channel (src/src/lib.rs),   *)
(* the containers and the button of src/src/ui.rs and                      *)
(* src/src/ui/elements.rs, the focus navigator and the ANSI-aware line     *)
(* merge of src/src/utils.rs.                                              *)
(*                                                                         *)
(* Each subsystem has its own specification over the same variables; the   *)
(* variables of the other subsystems are parked at a fixed value.          *)
(* Indices are 0-based as in the source; a sequence s is read at s[i + 1]. *)
(***************************************************************************)
EXTENDS Integers, Sequences, FiniteSets, TLC

VARIABLES
    \* Value<T> cell (lib.rs)
    cell,            \* the cell: [tag, v]
    cell0,           \* the cell as constructed
    sets,            \* the values passed to try_set_value so far, in order
    \* widget tree and event dispatch (ui.rs, ui/elements.rs)
    root,            \* the root widget
    before,          \* the root as it was before the last dispatched event
    lastKey,         \* the last dispatched key
    lastAns,         \* the response the focused leaf gave to that key
    failed,          \* the dispatch panicked
    nev,             \* number of events dispatched
    overflow_checks, \* build profile: usize arithmetic panics (TRUE) or wraps
    \* button tick schedule (ui.rs button + the runtime loop)
    btn,             \* the button component: [toggle, clicked]
    calls,           \* on_click invocations since the last dispatched Enter
    sched,           \* the tick sequence recorded for the button
    tickIdx,         \* the next tick index of the sequence
    wait,            \* loop iterations left before the next tick
    btnKey,          \* the last key dispatched to the button
    \* Document command channel (lib.rs)
    hpc,             \* where the handler thread is
    todo,            \* Document calls the running handler may still make
    cmdq,            \* commands in flight to the runtime
    replyq,          \* replies in flight to the handler
    rt_alive,        \* the runtime still holds the command receiver
    hres,            \* what the last get_element_by_id call returned
    \* focus navigator (utils.rs)
    sibs,            \* positions of the siblings
    cur,             \* current focus index
    prevCur,         \* focus index before the last navigation
    lastDir,         \* direction of the last navigation
    \* line merge (utils.rs)
    frame_line,      \* one row of a frame
    prevFrame,       \* the row before the last merge
    lastLine,        \* the overlay line of the last merge
    lastX,           \* the offset of the last merge
    mstat,           \* "init", "merged" or "panic"
    nmerge,          \* number of merges done on the row
    \* compress_string (utils.rs)
    cin,             \* the input string
    cout,            \* the result, once computed
    \* frame and render_to_frame (utils.rs)
    rows,            \* the rows of the frame
    fwidth,          \* the width the frame was created with
    fheight,         \* the height the frame was created with
    lastOut,         \* the render output of the last render_to_frame call
    lastPos,         \* the x, y of the element of that call
    fstat,           \* "init", "rendered" or "panic"
    nrender,         \* number of render_to_frame calls
    \* Style (ui.rs)
    style,           \* a Style record
    sout,            \* the strings its methods gave, once called
    \* focus cycling of tab and menu (ui.rs)
    start,           \* the focus index the tab or menu was constructed with
    presses,         \* the keys it was given since, in order
    \* render pass over a tree (ui.rs, ui/elements.rs)
    rtree,           \* the tree that is rendered
    rstat,           \* "init", "rendered" (by the last step), "changed" or "panic"
    npass,           \* number of render passes
    nchange          \* number of focus and size changes

valueVars == <<cell, cell0, sets>>
treeVars == <<root, before, lastKey, lastAns, failed, nev, overflow_checks>>
buttonVars == <<btn, calls, sched, tickIdx, wait, btnKey>>
docVars == <<hpc, todo, cmdq, replyq, rt_alive, hres>>
navVars == <<sibs, cur, prevCur, lastDir>>
mergeVars == <<frame_line, prevFrame, lastLine, lastX, mstat, nmerge>>
compressVars == <<cin, cout>>
frameVars == <<rows, fwidth, fheight, lastOut, lastPos, fstat, nrender>>
styleVars == <<style, sout>>
cycleVars == <<start, presses>>
renderVars == <<rtree, rstat, npass, nchange>>
restVars == <<frameVars, styleVars, cycleVars, renderVars>>
vars == <<valueVars, treeVars, buttonVars, docVars, navVars, mergeVars, compressVars,
          restVars>>

\* The parked value of each subsystem.
ValueParked == cell = 0 /\ cell0 = 0 /\ sets = <<>>
TreeParked ==
    /\ root = 0 /\ before = 0 /\ lastKey = "" /\ lastAns = 0
    /\ failed = FALSE /\ nev = 0 /\ overflow_checks = FALSE
ButtonParked ==
    /\ btn = 0 /\ calls = 0 /\ sched = <<>> /\ tickIdx = 0 /\ wait = 0
    /\ btnKey = ""
DocParked ==
    /\ hpc = "" /\ todo = 0 /\ cmdq = <<>> /\ replyq = <<>>
    /\ rt_alive = FALSE /\ hres = ""
NavParked == sibs = <<>> /\ cur = 0 /\ prevCur = 0 /\ lastDir = ""
MergeParked ==
    /\ frame_line = <<>> /\ prevFrame = <<>> /\ lastLine = <<>>
    /\ lastX = 0 /\ mstat = "" /\ nmerge = 0
CompressParked == cin = <<>> /\ cout = 0
FrameParked ==
    /\ rows = <<>> /\ fwidth = 0 /\ fheight = 0 /\ lastOut = <<>>
    /\ lastPos = 0 /\ fstat = "" /\ nrender = 0
StyleParked == style = 0 /\ sout = 0
CycleParked == start = 0 /\ presses = <<>>
RenderParked == rtree = 0 /\ rstat = "" /\ npass = 0 /\ nchange = 0
RestParked == FrameParked /\ StyleParked /\ CycleParked /\ RenderParked

----------------------------------------------------------------------------
(* Bounds *)

\* Values of the payload type T are 0..MaxVal.
MaxVal == 3
\* At most MaxSets calls of try_set_value are followed.
MaxSets == 2

----------------------------------------------------------------------------
(* Value<T>: src/src/lib.rs *)

Vals == 0..MaxVal

\* enum Value<T> { Default(T), Custom(T) }
Value == [tag : {"Default", "Custom"}, v : Vals]

get_value(c) == c.v

\* A try_set_value that marks the cell Custom.
try_set_value_custom(c, value) ==
    IF c.tag = "Default" THEN [tag |-> "Custom", v |-> value] ELSE c

\* A try_set_value without the Default test.
try_set_value_always(c, value) == [tag |-> "Default", v |-> value]

try_set_value(c, value) ==
    IF c.tag = "Default" THEN [tag |-> "Default", v |-> value] ELSE c

ValueInit == cell \in Value /\ cell0 = cell /\ sets = <<>>

TrySet ==
    /\ Len(sets) < MaxSets
    /\ \E value \in Vals :
        /\ cell' = try_set_value(cell, value)
        /\ sets' = Append(sets, value)
    /\ UNCHANGED cell0

InitValue ==
    /\ ValueInit
    /\ TreeParked /\ ButtonParked /\ DocParked /\ NavParked
    /\ MergeParked /\ CompressParked
    /\ RestParked

NextValue ==
    TrySet /\ UNCHANGED <<treeVars, buttonVars, docVars, navVars, mergeVars, compressVars, restVars>>

SpecValue == InitValue /\ [][NextValue]_vars

\* C1 as stated: a cell that started Default is Custom after try_set and
\* get_value returns the first value that was set.
C1_FirstSetWins ==
    (cell0.tag = "Default" /\ Len(sets) >= 1) =>
        (cell.tag = "Custom" /\ get_value(cell) = sets[1])

\* C1 amended: a cell that started Default stays Default under try_set and
\* get_value returns the value of the most recent try_set.
C1_LastSetWins ==
    (cell0.tag = "Default" /\ Len(sets) >= 1) =>
        (cell.tag = "Default" /\ get_value(cell) = sets[Len(sets)])

C1_Witness ==
    /\ cell0.tag = "Default" /\ Len(sets) = 2 /\ sets[1] # sets[2]
    /\ sets[1] # cell0.v /\ cell.v = sets[2]

\* C2: try_set leaves a Custom cell exactly as it is (tag and payload), so a
\* cell that is Custom never becomes Default again.
C2_CustomKept == [][cell.tag = "Custom" => cell' = cell]_vars

C2_Witness ==
    /\ cell0.tag = "Custom" /\ Len(sets) = 2
    /\ sets[1] # cell0.v /\ sets[2] # cell0.v /\ cell = cell0

----------------------------------------------------------------------------
(* Focus navigator: src/src/utils.rs *)

\* Siblings are placed at x, y in 0..MaxCoord; at most MaxSibs siblings.
MaxCoord == 2
MaxSibs == 3

\* enum Direction
Direction == {"Left", "Right", "Up", "Down"}

Pos == [x : 0..MaxCoord, y : 0..MaxCoord]

\* usize::abs_diff
abs_diff(a, b) == IF a >= b THEN a - b ELSE b - a

\* A filter that tests the requested axis only.
InDirection_axis_only(comp, current, direction) ==
    CASE direction = "Left" -> comp.x < current.x
      [] direction = "Right" -> comp.x > current.x
      [] direction = "Up" -> comp.y < current.y
      [] direction = "Down" -> comp.y > current.y

\* The closure given to filter (utils.rs:124-132).
InDirection(comp, current, direction) ==
    CASE direction = "Left" -> comp.x < current.x /\ comp.y = current.y
      [] direction = "Right" -> comp.x > current.x /\ comp.y = current.y
      [] direction = "Up" -> comp.y < current.y /\ comp.x = current.x
      [] direction = "Down" -> comp.y > current.y /\ comp.x = current.x

\* The closure given to min_by_key (utils.rs:133-136).
DistanceKey(comp, current) ==
    abs_diff(current.x, comp.x) + abs_diff(current.y, comp.y)

\* .iter().enumerate().filter(..).min_by_key(..): one pass over the siblings in
\* index order; `best` is the index kept so far (-1: none). min_by_key keeps the
\* first of several equal minima.
RECURSIVE filter_min_by_key(_, _, _, _, _)
filter_min_by_key(components, current, direction, i, best) ==
    IF i >= Len(components) THEN best
    ELSE LET comp == components[i + 1]
             better ==
                 /\ InDirection(comp, current, direction)
                 /\ \/ best = -1
                    \/ DistanceKey(comp, current)
                           < DistanceKey(components[best + 1], current)
         IN filter_min_by_key(components, current, direction, i + 1,
                              IF better THEN i ELSE best)

\* components[current_index] panics when the index is out of bounds.
closest_component_panics(components, current_index) ==
    current_index >= Len(components)

closest_component(components, current_index, direction) ==
    LET current == components[current_index + 1]
        found == filter_min_by_key(components, current, direction, 0, -1)
    IN IF found = -1 THEN current_index ELSE found

NavInit ==
    /\ \E n \in 1..MaxSibs : sibs \in [1..n -> Pos]
    /\ cur \in 0..(Len(sibs) - 1)
    /\ prevCur = cur
    /\ lastDir = ""

Navigate ==
    /\ ~closest_component_panics(sibs, cur)
    /\ \E direction \in Direction :
        /\ cur' = closest_component(sibs, cur, direction)
        /\ lastDir' = direction
    /\ prevCur' = cur
    /\ UNCHANGED sibs

InitNav ==
    /\ NavInit
    /\ ValueParked /\ TreeParked /\ ButtonParked /\ DocParked
    /\ MergeParked /\ CompressParked
    /\ RestParked

NextNav ==
    Navigate /\ UNCHANGED <<valueVars, treeVars, buttonVars, docVars, mergeVars, compressVars, restVars>>

SpecNav == InitNav /\ [][NextNav]_vars

\* The siblings strictly beyond sibling c on the requested axis and level with
\* it on the other axis.
OnAxisBeyond(c, d) ==
    {i \in 0..(Len(sibs) - 1) :
        \/ d = "Left" /\ sibs[i + 1].y = sibs[c + 1].y /\ sibs[i + 1].x < sibs[c + 1].x
        \/ d = "Right" /\ sibs[i + 1].y = sibs[c + 1].y /\ sibs[i + 1].x > sibs[c + 1].x
        \/ d = "Up" /\ sibs[i + 1].x = sibs[c + 1].x /\ sibs[i + 1].y < sibs[c + 1].y
        \/ d = "Down" /\ sibs[i + 1].x = sibs[c + 1].x /\ sibs[i + 1].y > sibs[c + 1].y}

Manhattan(i, j) ==
    LET dx == sibs[i + 1].x - sibs[j + 1].x
        dy == sibs[i + 1].y - sibs[j + 1].y
    IN (IF dx < 0 THEN -dx ELSE dx) + (IF dy < 0 THEN -dy ELSE dy)

\* C7: closest returns the nearest (Manhattan) of the siblings strictly beyond
\* the current one on the requested axis and level with it on the other axis,
\* the lowest index winning a tie; with no such sibling it returns the current
\* index. A sibling off the axis is never returned.
C7_ClosestResult ==
    lastDir # "" =>
        LET cands == OnAxisBeyond(prevCur, lastDir) IN
        IF cands = {} THEN cur = prevCur
        ELSE /\ cur \in cands
             /\ \A j \in cands :
                    \/ Manhattan(cur, prevCur) < Manhattan(j, prevCur)
                    \/ Manhattan(cur, prevCur) = Manhattan(j, prevCur) /\ cur <= j

\* Down from (0,0): the sibling at (0,2) is chosen although the one at (1,0),
\* off the axis, is nearer.
C7_Witness ==
    /\ lastDir = "Down" /\ Len(sibs) = 3
    /\ sibs[prevCur + 1] = [x |-> 0, y |-> 0]
    /\ sibs[cur + 1] = [x |-> 0, y |-> 2]
    /\ \E j \in 0..2 : sibs[j + 1] = [x |-> 1, y |-> 0]

----------------------------------------------------------------------------
(* Widgets and event dispatch: src/src/ui/elements.rs, src/src/ui.rs *)

\* A container is constructed with at most MaxKids children.
MaxKids == 2
\* TLC's integers are 32-bit: usize is modelled UsizeBits wide.
UsizeBits == 16
\* At most MaxEvents key events are followed.
MaxEvents == 2

UsizeModulus == 2 ^ UsizeBits

\* Key events the external input source delivers.
Keys == {"Up", "Down", "Left", "Right", "Tab", "ShiftTab", "Enter", "Char"}

\* A widget. kind "Div" is the Div element of ui/elements.rs and "Elem" any
\* other element (its event method is the author's); "div", "tab", "menu" and
\* "text" are the components of ui.rs. child is the focus index.
Widget(kind, id, x, y, child, children) ==
    [kind |-> kind, id |-> id, x |-> x, y |-> y,
     child |-> child, children |-> children]

NoElem == Widget("NoElem", "", 0, 0, 0, <<>>)

IsContainer(n) == n.kind \in {"Div", "div", "tab", "menu"}

\* EventResponse (ui/elements.rs) and UpdateResponse (ui.rs).
Response(type, id, elem) == [type |-> type, id |-> id, elem |-> elem]
ResponseNone == Response("None", "", NoElem)

Outcome(node, res, panic) == [node |-> node, res |-> res, panic |-> panic]

\* usize subtraction and addition: a panic with overflow checks, else wrapping.
usize_overflows(v) == v < 0 \/ v >= UsizeModulus
usize_wrap(v) == v % UsizeModulus

\* The focused child, when the focus index is in range.
has_child(n) == n.child < Len(n.children)
get_child(n) == n.children[n.child + 1]

\* Div's default keybinds (elements.rs:87-92) and div's binds (ui.rs:248-253).
KeyDirection(k) == k

DivKeybinds == {"Up", "Down", "Left", "Right"}

\* The focus change of a directional key (elements.rs:110-111, ui.rs:256-288).
Refocus(n, k) ==
    IF closest_component_panics(n.children, n.child)
    THEN Outcome(n, ResponseNone, TRUE)
    ELSE Outcome([n EXCEPT !.child =
                      closest_component(n.children, n.child, KeyDirection(k))],
                 ResponseNone, FALSE)

\* A Div that replaces only the child that answered and answers None itself.
ApplyResponse_absorbing(n, r) ==
    LET kids1 == [n.children EXCEPT ![n.child + 1] = r.node]
        kids2 ==
            CASE r.res.type = "UpdateElementById" ->
                    [i \in 1..Len(kids1) |->
                        IF kids1[i].id = r.res.id THEN r.res.elem ELSE kids1[i]]
              [] r.res.type = "UpdateSelf" ->
                    [kids1 EXCEPT ![n.child + 1] = r.res.elem]
              [] OTHER -> kids1
    IN Outcome([n EXCEPT !.children = kids2], ResponseNone, r.panic)

\* A Div that ignores UpdateElementById.
ApplyResponse_no_by_id(n, r) ==
    LET kids1 == [n.children EXCEPT ![n.child + 1] = r.node]
        kids2 ==
            CASE r.res.type = "UpdateSelf" ->
                    [kids1 EXCEPT ![n.child + 1] = r.res.elem]
              [] OTHER -> kids1
    IN Outcome([n EXCEPT !.children = kids2], r.res, r.panic)

\* What Div::event does with the outcome r of its focused child's event
\* (elements.rs:113-127): the child was mutated in place, the response is
\* applied to the children, and the same response is returned.
ApplyResponse(n, r) ==
    LET kids1 == [n.children EXCEPT ![n.child + 1] = r.node]
        kids2 ==
            CASE r.res.type = "UpdateElementById" ->
                    [i \in 1..Len(kids1) |->
                        IF kids1[i].id = r.res.id THEN r.res.elem ELSE kids1[i]]
              [] r.res.type = "UpdateSelf" ->
                    [kids1 EXCEPT ![n.child + 1] = r.res.elem]
              [] OTHER -> kids1
    IN Outcome([n EXCEPT !.children = kids2], r.res, r.panic)

\* What div::update and tab::update do with it (ui.rs:290-292, 413-414): the
\* child was mutated in place and its response is returned.
ForwardResponse(n, r) ==
    Outcome([n EXCEPT !.children[n.child + 1] = r.node], r.res, r.panic)

\* A "next" that stops at the last child.
tab_next_saturating(n) ==
    IF n.child + 1 < Len(n.children)
    THEN Outcome([n EXCEPT !.child = n.child + 1], ResponseNone, FALSE)
    ELSE Outcome(n, ResponseNone, FALSE)

\* tab::update on "next" (ui.rs:396-402).
tab_next(n) ==
    IF usize_overflows(n.child + 1) /\ overflow_checks
    THEN Outcome(n, ResponseNone, TRUE)
    ELSE IF usize_wrap(n.child + 1) < Len(n.children)
    THEN Outcome([n EXCEPT !.child = usize_wrap(n.child + 1)], ResponseNone, FALSE)
    ELSE Outcome([n EXCEPT !.child = 0], ResponseNone, FALSE)

\* A "previous" that stays at 0 when there are no children.
tab_previous_guarded(n) ==
    IF n.child = 0
    THEN Outcome([n EXCEPT !.child =
                      IF Len(n.children) = 0 THEN 0 ELSE Len(n.children) - 1],
                 ResponseNone, FALSE)
    ELSE Outcome([n EXCEPT !.child = n.child - 1], ResponseNone, FALSE)

\* tab::update on "previous" (ui.rs:403-409).
tab_previous(n) ==
    IF n.child = 0
    THEN IF usize_overflows(Len(n.children) - 1) /\ overflow_checks
         THEN Outcome(n, ResponseNone, TRUE)
         ELSE Outcome([n EXCEPT !.child = usize_wrap(Len(n.children) - 1)],
                      ResponseNone, FALSE)
    ELSE Outcome([n EXCEPT !.child = n.child - 1], ResponseNone, FALSE)

\* menu::update (ui.rs:483-500); on_click is the author's callback.
menu_update(n, k) ==
    CASE k = "Down" ->
            IF usize_overflows(n.child + 1) /\ overflow_checks
            THEN Outcome(n, ResponseNone, TRUE)
            ELSE IF Len(n.children) > usize_wrap(n.child + 1)
            THEN Outcome([n EXCEPT !.child = usize_wrap(n.child + 1)],
                         ResponseNone, FALSE)
            ELSE Outcome([n EXCEPT !.child = 0], ResponseNone, FALSE)
      [] k = "Up" ->
            IF n.child > 0
            THEN Outcome([n EXCEPT !.child = n.child - 1], ResponseNone, FALSE)
            ELSE IF usize_overflows(Len(n.children) - 1) /\ overflow_checks
            THEN Outcome(n, ResponseNone, TRUE)
            ELSE Outcome([n EXCEPT !.child = usize_wrap(Len(n.children) - 1)],
                         ResponseNone, FALSE)
      [] OTHER -> Outcome(n, ResponseNone, FALSE)

\* The event (update) method of widget n for key k; ans is the response the
\* author's element on the focus path gives if the key reaches it.
RECURSIVE Event(_, _, _)
Event(n, k, ans) ==
    CASE n.kind = "Div" ->
            \* Div::event (elements.rs:107-134)
            IF k \in DivKeybinds THEN Refocus(n, k)
            ELSE IF has_child(n)
            THEN ApplyResponse(n, Event(get_child(n), k, ans))
            ELSE Outcome(n, ResponseNone, FALSE)
      [] n.kind = "div" ->
            \* div::update (ui.rs:255-296)
            IF k \in DivKeybinds THEN Refocus(n, k)
            ELSE IF has_child(n)
            THEN ForwardResponse(n, Event(get_child(n), k, ans))
            ELSE Outcome(n, ResponseNone, FALSE)
      [] n.kind = "tab" ->
            \* tab::update (ui.rs:393-419)
            IF k = "Tab" THEN tab_next(n)
            ELSE IF k = "ShiftTab" THEN tab_previous(n)
            ELSE IF has_child(n)
            THEN ForwardResponse(n, Event(get_child(n), k, ans))
            ELSE Outcome(n, ResponseNone, FALSE)
      [] n.kind = "menu" -> menu_update(n, k)
      [] n.kind = "text" ->
            \* text::update (ui.rs:328-330)
            Outcome(n, ResponseNone, FALSE)
      [] OTHER ->
            \* an element whose event method is the author's
            Outcome(n, ans, FALSE)

\* Whether key k, given to widget n, reaches an element whose event method is
\* the author's.
RECURSIVE ReachesElem(_, _)
ReachesElem(n, k) ==
    CASE n.kind \in {"Div", "div"} ->
            k \notin DivKeybinds /\ has_child(n) /\ ReachesElem(get_child(n), k)
      [] n.kind = "tab" ->
            k \notin {"Tab", "ShiftTab"} /\ has_child(n)
                /\ ReachesElem(get_child(n), k)
      [] n.kind \in {"menu", "text"} -> FALSE
      [] OTHER -> TRUE

\* Trees as the tree-building macros hand them over: the identifiers and
\* positions of the leaves, the containers over them, one container nested in
\* a Div, and a Div nested three deep.
Ids == {"a", "b"}
LeafPos == {<<0, 0>>, <<1, 0>>}
Elems == {Widget("Elem", id, p[1], p[2], 0, <<>>) : id \in Ids, p \in LeafPos}
Texts == {Widget("text", id, p[1], p[2], 0, <<>>) : id \in Ids, p \in LeafPos}

KidSeqs(S) == UNION {[1..n -> S] : n \in 0..MaxKids}

FocusRange(kids) == IF Len(kids) = 0 THEN {0} ELSE 0..(Len(kids) - 1)

Containers(kind, S) ==
    UNION {{Widget(kind, "c", 0, 0, f, kids) : f \in FocusRange(kids)} :
              kids \in KidSeqs(S)}

FlatTrees ==
    Containers("Div", Elems) \cup Containers("div", Texts)
        \cup Containers("tab", Texts) \cup Containers("menu", Texts)

NestedTrees ==
    {Widget("Div", "r", 0, 0, 0, <<inner>>) : inner \in Containers("Div", Elems)}
        \cup {Widget("Div", "r", 0, 0, f, <<inner, Widget("Elem", "a", 1, 0, 0, <<>>)>>) :
                inner \in Containers("Div", Elems), f \in {0, 1}}
        \cup {Widget("tab", "r", 0, 0, 0, <<inner>>) : inner \in Containers("menu", Texts)}

DeepTrees ==
    {Widget("Div", "r", 0, 0, 0,
            <<Widget("Div", "m", 0, 0, 0, <<Widget("Div", "c", 0, 0, 0, <<e>>)>>)>>) :
        e \in Elems}

\* What an author's element may answer: nothing, a replacement of itself, a
\* replacement by identifier, or a command for the runtime.
Replacements == {Widget("Elem", "w", 0, 0, 0, <<>>), Widget("Elem", "a", 1, 0, 0, <<>>)}

Answers ==
    {ResponseNone, Response("Command", "", NoElem)}
        \cup {Response("UpdateSelf", "", w) : w \in Replacements}
        \cup {Response("UpdateElementById", id, w) : id \in Ids, w \in Replacements}

TreeInit ==
    /\ root \in FlatTrees \cup NestedTrees \cup DeepTrees
    /\ before = root
    /\ lastKey = ""
    /\ lastAns = ResponseNone
    /\ failed = FALSE
    /\ nev = 0
    /\ overflow_checks \in BOOLEAN

\* The runtime hands one key event to the root widget.
KeyEvent ==
    /\ ~failed
    /\ nev < MaxEvents
    /\ \E k \in Keys :
        \E ans \in (IF ReachesElem(root, k) THEN Answers ELSE {ResponseNone}) :
            LET r == Event(root, k, ans) IN
            /\ root' = IF r.panic THEN root ELSE r.node
            /\ failed' = r.panic
            /\ lastKey' = k
            /\ lastAns' = ans
    /\ before' = root
    /\ nev' = nev + 1
    /\ UNCHANGED overflow_checks

InitTree ==
    /\ TreeInit
    /\ ValueParked /\ ButtonParked /\ DocParked /\ NavParked
    /\ MergeParked /\ CompressParked
    /\ RestParked

NextTree ==
    KeyEvent /\ UNCHANGED <<valueVars, buttonVars, docVars, navVars, mergeVars, compressVars, restVars>>

SpecTree == InitTree /\ [][NextTree]_vars

\* The focus index of every container of the tree under n is a valid index
\* into its children, or 0 when it has none.
RECURSIVE FocusValid(_)
FocusValid(n) ==
    /\ IsContainer(n) =>
        IF Len(n.children) = 0 THEN n.child = 0 ELSE n.child < Len(n.children)
    /\ \A i \in 1..Len(n.children) : FocusValid(n.children[i])

\* C3: after any sequence of key events and applied replace responses the
\* focus index of every container (Div, tab, menu), with any number of
\* children including zero, is a valid index or 0 for no children, and no
\* event fails.
C3_FocusIndexValid == ~failed /\ FocusValid(root)

\* The tree n with the element at the end of its focus path replaced by w.
RECURSIVE SpliceAtFocus(_, _)
SpliceAtFocus(n, w) ==
    IF IsContainer(n)
    THEN [n EXCEPT !.children[n.child + 1] = SpliceAtFocus(get_child(n), w)]
    ELSE w

\* C6: when the element at the end of the focus path, at any depth, answers
\* ReplaceSelf(w), after the dispatch exactly that element is replaced by w in
\* its parent and every other node, each ancestor included, is as before.
C6_ReplaceSelfSplices ==
    (nev > 0 /\ ~failed /\ lastAns.type = "UpdateSelf") =>
        root = SpliceAtFocus(before, lastAns.elem)

\* The indices of the children whose event method a Div calls for key k
\* (elements.rs:110-113, ui.rs:256-291).
Delivered(n, k) ==
    IF k \in DivKeybinds THEN {}
    ELSE IF has_child(n) THEN {n.child}
    ELSE {}

\* The children of Div b once the response res of its focused child, which
\* its own event call left as child1, is applied.
Applied(b, child1, res) ==
    [j \in 1..Len(b.children) |->
        LET cj == IF j = b.child + 1 THEN child1 ELSE b.children[j] IN
        CASE res.type = "UpdateSelf" /\ j = b.child + 1 -> res.elem
          [] res.type = "UpdateElementById" /\ cj.id = res.id -> res.elem
          [] OTHER -> cj]

\* C15: for every key event delivered to a Div: on a key of its directional
\* bindings the focus index becomes the navigator's result, no child is given
\* the event and the response is None; on any other key exactly the focused
\* child is given the event, the focus index is unchanged, and the child's
\* response is applied to the children when the Div's event call returns. The
\* call does not fail.
C15_ContainerDispatch ==
    (nev > 0 /\ before.kind \in {"Div", "div"}) =>
        /\ ~failed
        /\ LET r == Event(before, lastKey, lastAns) IN
           IF lastKey \in DivKeybinds
           THEN /\ root.child =
                       closest_component(before.children, before.child, lastKey)
                /\ Delivered(before, lastKey) = {}
                /\ root.children = before.children
                /\ r.res = ResponseNone
           ELSE /\ root.child = before.child
                /\ Delivered(before, lastKey) =
                       (IF before.child < Len(before.children)
                        THEN {before.child} ELSE {})
                /\ has_child(before) =>
                       LET c == Event(get_child(before), lastKey, lastAns) IN
                       root.children = Applied(before, c.node, c.res)
                /\ ~has_child(before) => root.children = before.children

\* The Div b, which became a after the dispatch of key k, and every Div on
\* its focus path that was not itself replaced, once their focused child
\* answered UpdateElementById(id, w): the children of that identifier are w,
\* every other child is as its own event call left it, and the number of
\* children and the focus index are as before.
RECURSIVE ReplacedById(_, _, _, _)
ReplacedById(b, a, k, ans) ==
    (b.kind = "Div" /\ k \notin DivKeybinds /\ has_child(b)) =>
        LET c == Event(get_child(b), k, ans) IN
        /\ c.res.type = "UpdateElementById" =>
            /\ Len(a.children) = Len(b.children)
            /\ a.child = b.child
            /\ \A j \in 1..Len(b.children) :
                LET cj == IF j = b.child + 1 THEN c.node ELSE b.children[j] IN
                a.children[j] = IF cj.id = c.res.id THEN c.res.elem ELSE cj
        /\ (c.res.type = "UpdateElementById" /\ c.node.id # c.res.id) =>
            ReplacedById(get_child(b), get_child(a), k, ans)

\* C16: when the focused child of a Div answers ReplaceById(id, w), after the
\* dispatch the Div's children of identifier id are replaced by w, every
\* child of another identifier is unchanged, the number of children and the
\* focus index are unchanged; with no child of that identifier the children
\* are unchanged; and no error is raised.
C16_ReplaceById ==
    (nev > 0 /\ lastAns.type = "UpdateElementById") =>
        /\ ~failed
        /\ ReplacedById(before, root, lastKey, lastAns)

\* A flat Div focused on its first child, whose answer replaces the second
\* child, which has the identifier asked for.
C16_Witness ==
    /\ nev = 1 /\ lastAns.type = "UpdateElementById" /\ lastAns.id = "b"
    /\ before.kind = "Div" /\ Len(before.children) = 2 /\ before.child = 0
    /\ before.children[1].id = "a" /\ before.children[2].id = "b"
    /\ root.children = <<before.children[1], lastAns.elem>>
    /\ lastAns.elem.id = "w"

----------------------------------------------------------------------------
(* Button: src/src/ui.rs, and the runtime loop that drives its ticks *)

\* The button component: its toggle and clicked flags. called counts the
\* invocations of on_click a call makes; the callback itself is the author's.
ButtonOutcome(b, ticks, called) == [btn |-> b, ticks |-> ticks, called |-> called]

\* button::update (ui.rs:346-358); binds maps Enter to "click" (ui.rs:344).
button_update(b, k) ==
    IF k = "Enter"
    THEN IF b.toggle
         THEN ButtonOutcome([b EXCEPT !.clicked = ~b.clicked], <<>>, 1)
         ELSE ButtonOutcome(b, <<1, 100>>, 0)
    ELSE ButtonOutcome(b, <<>>, 0)

\* A tick that enters the clicked state and never leaves it.
button_tick_no_revert(b, i) ==
    IF i = 0
    THEN ButtonOutcome([b EXCEPT !.clicked = TRUE], <<>>, 1)
    ELSE ButtonOutcome(b, <<>>, 0)

\* button::tick (ui.rs:360-368).
button_tick(b, i) ==
    IF i = 0
    THEN ButtonOutcome([b EXCEPT !.clicked = TRUE], <<>>, 1)
    ELSE IF i = 1
    THEN ButtonOutcome([b EXCEPT !.clicked = FALSE], <<>>, 1)
    ELSE ButtonOutcome(b, <<>>, 0)

ButtonInit ==
    /\ btn \in [toggle : BOOLEAN, clicked : {FALSE}]
    /\ calls = 0
    /\ sched = <<>>
    /\ tickIdx = 0
    /\ wait = 0
    /\ btnKey = ""

\* The loop dispatches a key to the button and records the tick sequence the
\* button answers with; no key is taken while a sequence is in progress.
ButtonKey ==
    /\ sched = <<>>
    /\ \E k \in Keys :
        LET r == button_update(btn, k) IN
        /\ btn' = r.btn
        /\ calls' = r.called
        /\ sched' = r.ticks
        /\ btnKey' = k
    /\ tickIdx' = 0
    /\ wait' = 0

\* One iteration of the loop while a sequence is recorded: it lets one delay
\* unit pass, or calls the button's tick with the next index and takes that
\* entry's delay, or, the sequence done, drops it.
LoopTick ==
    /\ sched # <<>>
    /\ IF wait > 0
       THEN /\ wait' = wait - 1
            /\ UNCHANGED <<btn, calls, sched, tickIdx>>
       ELSE IF tickIdx < Len(sched)
       THEN LET r == button_tick(btn, tickIdx) IN
            /\ btn' = r.btn
            /\ calls' = calls + r.called
            /\ wait' = sched[tickIdx + 1]
            /\ tickIdx' = tickIdx + 1
            /\ UNCHANGED sched
       ELSE /\ sched' = <<>>
            /\ UNCHANGED <<btn, calls, tickIdx, wait>>
    /\ UNCHANGED btnKey

InitButton ==
    /\ ButtonInit
    /\ ValueParked /\ TreeParked /\ DocParked /\ NavParked
    /\ MergeParked /\ CompressParked
    /\ RestParked

ButtonOthers == <<valueVars, treeVars, docVars, navVars, mergeVars, compressVars, restVars>>

NextButton ==
    \/ ButtonKey /\ UNCHANGED ButtonOthers
    \/ LoopTick /\ UNCHANGED ButtonOthers

\* The loop keeps iterating: a recorded sequence is advanced.
SpecButton == InitButton /\ [][NextButton]_vars /\ WF_vars(LoopTick /\ UNCHANGED ButtonOthers)

\* The states of an activation of a non-toggle button.
ButtonSequenceStates ==
    ~btn.toggle =>
        /\ btnKey = "Enter" =>
            \/ sched # <<>> /\ tickIdx = 0 /\ ~btn.clicked /\ calls = 0
            \/ sched # <<>> /\ tickIdx = 1 /\ btn.clicked /\ calls = 1
            \/ tickIdx = 2 /\ ~btn.clicked /\ calls = 2
        /\ btnKey # "Enter" => sched = <<>> /\ ~btn.clicked
        /\ sched # <<>> => ENABLED LoopTick

----------------------------------------------------------------------------
(* Document: src/src/lib.rs, and the runtime that serves its commands *)

\* A handler makes at most MaxCalls Document calls; at most MaxQueue commands
\* are in flight.
MaxCalls == 2
MaxQueue == 2

\* enum Command
Command(cmd, id) == [cmd |-> cmd, id |-> id]

\* Identifiers handlers ask for, and those of them the tree holds.
AskedIds == {"usr", "none"}
TreeIds == {"usr"}

DocInit ==
    /\ hpc = "idle"
    /\ todo = 0
    /\ cmdq = <<>>
    /\ replyq = <<>>
    /\ rt_alive = TRUE
    /\ hres = ""

\* Event dispatch runs a handler on the handler thread.
RunHandler ==
    /\ hpc = "idle"
    /\ hpc' = "running"
    /\ todo' = MaxCalls
    /\ UNCHANGED <<cmdq, replyq, rt_alive, hres>>

\* The handler returns.
HandlerReturn ==
    /\ hpc = "running"
    /\ hpc' = "idle"
    /\ todo' = 0
    /\ UNCHANGED <<cmdq, replyq, rt_alive, hres>>

\* self.cmd_sender.send(c).unwrap(): the command is queued, or the receiver is
\* gone and unwrap panics; then the handler is at `next`.
SendUnwrap(c, next) ==
    /\ hpc = "running"
    /\ todo > 0
    /\ todo' = todo - 1
    /\ IF rt_alive
       THEN /\ Len(cmdq) < MaxQueue
            /\ cmdq' = Append(cmdq, c)
            /\ hpc' = next
       ELSE /\ hpc' = "panicked"
            /\ UNCHANGED cmdq
    /\ UNCHANGED <<replyq, rt_alive>>

\* Document::exit (lib.rs:229-231)
exit == SendUnwrap(Command("Exit", ""), "running") /\ UNCHANGED hres

\* Document::render (lib.rs:244-246)
render == SendUnwrap(Command("Render", ""), "running") /\ UNCHANGED hres

\* Document::get_element_by_id, the request (lib.rs:233-235)
get_element_by_id_send ==
    /\ \E id \in AskedIds : SendUnwrap(Command("GetElementById", id), "waiting")
    /\ hres' = ""

\* A recv that returns only when a reply arrives.
get_element_by_id_recv_reply_only ==
    /\ hpc = "waiting"
    /\ replyq # <<>>
    /\ hres' = Head(replyq)
    /\ replyq' = Tail(replyq)
    /\ hpc' = "running"
    /\ UNCHANGED <<todo, cmdq, rt_alive>>

\* Document::get_element_by_id, the blocking rx.recv() (lib.rs:236-242): it
\* returns a reply, or an error once the channel is empty and its sender is
\* gone; Ok(Some(e)) gives Some, everything else None.
get_element_by_id_recv ==
    /\ hpc = "waiting"
    /\ \/ /\ replyq # <<>>
          /\ hres' = Head(replyq)
          /\ replyq' = Tail(replyq)
       \/ /\ replyq = <<>>
          /\ ~rt_alive
          /\ hres' = "None"
          /\ UNCHANGED replyq
    /\ hpc' = "running"
    /\ UNCHANGED <<todo, cmdq, rt_alive>>

\* The runtime, on its own thread, takes the next command: Exit ends it and
\* drops its channel ends, Render draws, GetElementById is answered with the
\* element of that identifier or with none.
RuntimeStep ==
    /\ rt_alive
    /\ cmdq # <<>>
    /\ LET c == Head(cmdq) IN
       CASE c.cmd = "Exit" ->
               /\ rt_alive' = FALSE
               /\ cmdq' = <<>>
               /\ UNCHANGED replyq
         [] c.cmd = "GetElementById" ->
               /\ replyq' = Append(replyq, IF c.id \in TreeIds THEN "Some" ELSE "None")
               /\ cmdq' = Tail(cmdq)
               /\ UNCHANGED rt_alive
         [] OTHER ->
               /\ cmdq' = Tail(cmdq)
               /\ UNCHANGED <<replyq, rt_alive>>
    /\ UNCHANGED <<hpc, todo, hres>>

InitDoc ==
    /\ DocInit
    /\ ValueParked /\ TreeParked /\ ButtonParked /\ NavParked
    /\ MergeParked /\ CompressParked
    /\ RestParked

DocOthers == <<valueVars, treeVars, buttonVars, navVars, mergeVars, compressVars, restVars>>

NextDoc ==
    \/ RunHandler /\ UNCHANGED DocOthers
    \/ HandlerReturn /\ UNCHANGED DocOthers
    \/ exit /\ UNCHANGED DocOthers
    \/ render /\ UNCHANGED DocOthers
    \/ get_element_by_id_send /\ UNCHANGED DocOthers
    \/ get_element_by_id_recv /\ UNCHANGED DocOthers
    \/ RuntimeStep /\ UNCHANGED DocOthers

\* The runtime thread and the handler thread are both scheduled: a command
\* that can be taken is taken, a recv that can return returns.
SpecDoc ==
    /\ InitDoc /\ [][NextDoc]_vars
    /\ WF_vars(RuntimeStep /\ UNCHANGED DocOthers)
    /\ WF_vars(get_element_by_id_recv /\ UNCHANGED DocOthers)

C12_ChannelClosedFails == hpc # "panicked"

----------------------------------------------------------------------------
(* compress_string and merge_line: src/src/utils.rs *)

\* Strings are sequences of characters. Input strings are made of at most
\* MaxTok tokens, overlay lines of at most MaxLineTok; a frame row is at most
\* MaxWidth wide.
MaxTok == 3
MaxLineTok == 2
MaxWidth == 2
\* At most MaxMerges merges into one row are followed.
MaxMerges == 2

\* The characters of the model: the escape character, the characters an ANSI
\* sequence is spelled with, the transparent marker "TAB", the placeholder
\* "NL", a space, and visible characters, of which "e_acute" (U+00E9) takes
\* two bytes in UTF-8 and "0", "1", "m" and "a" one.
ParamChars == {"0", "1", ";"}
Letters == {"a", "m"}

\* char::len_utf8
len_utf8(c) == IF c = "e_acute" THEN 2 ELSE 1

\* str::len: the length in bytes
RECURSIVE ByteLen(_)
ByteLen(s) == IF s = <<>> THEN 0 ELSE len_utf8(Head(s)) + ByteLen(Tail(s))

\* str::is_char_boundary(b)
is_char_boundary(s, b) == \E j \in 0..Len(s) : ByteLen(SubSeq(s, 1, j)) = b

\* &s[b..] for a byte index b that is a character boundary
str_from(s, b) ==
    LET j == CHOOSE j \in 0..Len(s) : ByteLen(SubSeq(s, 1, j)) = b
    IN SubSeq(s, j + 1, Len(s))

\* &s[..b] for a byte index b that is a character boundary
str_to(s, b) ==
    LET j == CHOOSE j \in 0..Len(s) : ByteLen(SubSeq(s, 1, j)) = b
    IN SubSeq(s, 1, j)

\* ANSI = (\x1b\[([0-9;]*)[a-zA-Z])+  (utils.rs:10)
\* [0-9;]* from position p: the position after it.
RECURSIVE ParamsEnd(_, _)
ParamsEnd(s, p) ==
    IF p <= Len(s) /\ s[p] \in ParamChars THEN ParamsEnd(s, p + 1) ELSE p

\* One \x1b\[([0-9;]*)[a-zA-Z] at position p: the position after it, or 0.
GroupEnd(s, p) ==
    IF p + 1 <= Len(s) /\ s[p] = "ESC" /\ s[p + 1] = "["
    THEN LET q == ParamsEnd(s, p + 2)
         IN IF q <= Len(s) /\ s[q] \in Letters THEN q + 1 ELSE 0
    ELSE 0

\* The greedy repetition at position p: the position after the last group.
RECURSIVE RunEnd(_, _)
RunEnd(s, p) ==
    LET e == GroupEnd(s, p) IN IF e = 0 THEN p ELSE RunEnd(s, e)

\* Regex::find: the leftmost match, its start and end as byte offsets.
re_find(s) ==
    LET starts == {p \in 1..Len(s) : RunEnd(s, p) > p} IN
    IF starts = {} THEN [found |-> FALSE, start |-> 0, end |-> 0]
    ELSE LET p == CHOOSE q \in starts : \A r \in starts : q <= r
         IN [found |-> TRUE,
             start |-> ByteLen(SubSeq(s, 1, p - 1)),
             end |-> ByteLen(SubSeq(s, 1, RunEnd(s, p) - 1))]

\* HashMap::get, an absent key giving the empty string
MapGet(m, k) == IF k \in DOMAIN m THEN m[k] ELSE <<>>

Compressed(ok, res, map) == [ok |-> ok, res |-> res, map |-> map]

\* The while loop of compress_string (utils.rs:19-34). i counts characters and
\* is used as a byte index in &input[i..], which panics off a character
\* boundary; the map is keyed by res.len(), a byte length.
RECURSIVE compress_loop(_, _, _, _)
compress_loop(input, i, res, matches_map) ==
    IF i >= Len(input) THEN Compressed(TRUE, res, matches_map)
    ELSE IF ~is_char_boundary(input, i) THEN Compressed(FALSE, res, matches_map)
    ELSE LET loc == re_find(str_from(input, i)) IN
         IF loc.found /\ loc.start = 0
         THEN LET ansi_seq == str_to(str_from(input, i), loc.end) IN
              compress_loop(input, i + Len(ansi_seq), res,
                            (ByteLen(res) :> ansi_seq) @@ matches_map)
         ELSE compress_loop(input, i + 1, Append(res, input[i + 1]), matches_map)

\* compress_string (utils.rs:14-37); ok is FALSE when it panics.
compress_string(input) == compress_loop(input, 0, <<>>, <<>>)

\* The for loop of merge_line (utils.rs:55-71).
RECURSIVE merge_loop(_, _, _, _, _, _, _)
merge_loop(frame, line, fm, lm, x, i, res) ==
    IF i >= Len(frame) THEN res
    ELSE IF i >= x /\ i - x < Len(line) /\ line[i - x + 1] # "TAB"
    THEN merge_loop(frame, line, fm, lm, x, i + 1,
                    res \o MapGet(lm, i - x)
                        \o <<IF line[i - x + 1] = "NL" THEN frame[i + 1]
                             ELSE line[i - x + 1]>>)
    ELSE merge_loop(frame, line, fm, lm, x, i + 1,
                    res \o MapGet(fm, i) \o <<frame[i + 1]>>)

\* merge_line (utils.rs:40-74); ok is FALSE when it panics.
merge_line(frame_, line_, x) ==
    LET cf == compress_string(frame_)
        cl == compress_string(line_)
    IN IF ~cf.ok \/ ~cl.ok THEN [ok |-> FALSE, s |-> <<>>]
       ELSE LET line == IF ByteLen(cl.res) \in DOMAIN cl.map
                        THEN Append(cl.res, "NL") ELSE cl.res
            IN [ok |-> TRUE, s |-> merge_loop(cf.res, line, cf.map, cl.map, x, 0, <<>>)]

\* One row of create_frame (utils.rs:141-143): width spaces.
blank_row(width) == [i \in 1..width |-> " "]

\* What an element's render output is made of: visible characters, the
\* transparent marker, and the escape sequences of ui.rs (reset, bold).
Tokens == {<<"a">>, <<"e_acute">>, <<"TAB">>,
           <<"ESC", "[", "0", "m">>, <<"ESC", "[", "1", "m">>}

RECURSIVE Flatten(_)
Flatten(ts) == IF ts = <<>> THEN <<>> ELSE Head(ts) \o Flatten(Tail(ts))

Strings(n) == {Flatten(ts) : ts \in UNION {[1..k -> Tokens] : k \in 0..n}}

MergeInit ==
    /\ \E width \in 0..MaxWidth : frame_line = blank_row(width)
    /\ prevFrame = frame_line
    /\ lastLine = <<>>
    /\ lastX = 0
    /\ mstat = "init"
    /\ nmerge = 0

\* render_to_frame replaces a row by its merge with one line of an element's
\* render output at the element's x (utils.rs:81-82).
MergeRow ==
    /\ mstat # "panic"
    /\ nmerge < MaxMerges
    /\ nmerge' = nmerge + 1
    /\ \E line \in Strings(MaxLineTok), x \in 0..MaxWidth :
        LET r == merge_line(frame_line, line, x) IN
        /\ frame_line' = IF r.ok THEN r.s ELSE frame_line
        /\ mstat' = IF r.ok THEN "merged" ELSE "panic"
        /\ lastLine' = line
        /\ lastX' = x
    /\ prevFrame' = frame_line

InitMerge ==
    /\ MergeInit
    /\ ValueParked /\ TreeParked /\ ButtonParked /\ DocParked /\ NavParked
    /\ CompressParked
    /\ RestParked

NextMerge ==
    MergeRow /\ UNCHANGED <<valueVars, treeVars, buttonVars, docVars, navVars, compressVars, restVars>>

SpecMerge == InitMerge /\ [][NextMerge]_vars

CompressInit ==
    /\ cin \in Strings(MaxTok)
    /\ cout = [done |-> FALSE, ok |-> TRUE, res |-> <<>>, map |-> <<>>]

CompressCall ==
    /\ ~cout.done
    /\ LET r == compress_string(cin) IN
       cout' = [done |-> TRUE, ok |-> r.ok, res |-> r.res, map |-> r.map]
    /\ UNCHANGED cin

InitCompress ==
    /\ CompressInit
    /\ ValueParked /\ TreeParked /\ ButtonParked /\ DocParked /\ NavParked
    /\ MergeParked
    /\ RestParked

NextCompress ==
    CompressCall /\ UNCHANGED <<valueVars, treeVars, buttonVars, docVars, navVars, mergeVars, restVars>>

SpecCompress == InitCompress /\ [][NextCompress]_vars

\* A string read as cells: each visible character with the escape run that
\* immediately precedes it (empty when there is none). An escape run at the
\* end of the string precedes no character and is its trailing run.
RECURSIVE Cells(_, _)
Cells(s, p) ==
    IF p > Len(s) THEN <<>>
    ELSE LET e == RunEnd(s, p) IN
         IF e > Len(s) THEN <<>>
         ELSE <<[esc |-> SubSeq(s, p, e - 1), ch |-> s[e]]>> \o Cells(s, e + 1)

RECURSIVE TrailingRun(_, _)
TrailingRun(s, p) ==
    IF p > Len(s) THEN <<>>
    ELSE LET e == RunEnd(s, p) IN
         IF e > Len(s) THEN SubSeq(s, p, Len(s)) ELSE TrailingRun(s, e + 1)

Visible(s) == [i \in 1..Len(Cells(s, 1)) |-> Cells(s, 1)[i].ch]

\* The escape run in effect at visible index i: the last one at or before it.
InEffect(cells, i) ==
    LET js == {j \in 1..(i + 1) : cells[j].esc # <<>>} IN
    IF js = {} THEN <<>>
    ELSE cells[CHOOSE j \in js : \A k \in js : k <= j].esc

OnlyTabs(line) == \A i \in 1..Len(line) : line[i] = "TAB"

\* The overlay of the last merge puts a visible character on frame index i.
Covered(i) ==
    LET ov == Visible(lastLine) IN
    i >= lastX /\ i - lastX < Len(ov) /\ ov[i - lastX + 1] # "TAB"

\* C8: merge_line returns the frame line unchanged when the overlay places no
\* visible character on it: the overlay is made of transparent markers only,
\* or lies entirely outside [0, frame_width).
C8_NoOpOverlay ==
    (mstat # "init" /\ (OnlyTabs(lastLine) \/ lastX >= Len(Visible(prevFrame)))) =>
        (mstat = "merged" /\ frame_line = prevFrame)

\* The styling a string of escape runs leaves in effect: the parameter of its
\* last sequence, "0" (reset) when there is none.
SgrState(run) ==
    LET ps == {p \in 1..Len(run) : run[p] = "ESC"} IN
    IF ps = {} THEN "0"
    ELSE run[(CHOOSE p \in ps : \A q \in ps : q <= p) + 2]

\* C9: every frame character not covered by a non-transparent overlay
\* character appears in the merged line under the same styling as before: the
\* escape run in effect at it is the frame's own, not missing and not the
\* overlay's. Stated for the overlays that leave no styling of their own in
\* effect (no escape, or a reset last), and comparing what the runs in effect
\* do, not their spelling.
C9_OutsideStylingKept ==
    (mstat = "merged" /\ SgrState(lastLine) = "0") =>
        LET old == Cells(prevFrame, 1)
            new == Cells(frame_line, 1)
        IN \A i \in 0..(Len(old) - 1) :
            ~Covered(i) =>
                /\ i < Len(new)
                /\ new[i + 1].ch = old[i + 1].ch
                /\ SgrState(InEffect(new, i)) = SgrState(InEffect(old, i))

\* C17: when the overlay line ends with an escape sequence and puts at least
\* one visible character on the frame, the merged line has that trailing
\* escape right after the last overlaid position: before the frame character
\* that follows the overlay, or, when the overlay reaches or passes the
\* frame's last column, at the end of the line.
C17_TrailingEscapeKept ==
    LET ov == Visible(lastLine)
        tr == TrailingRun(lastLine, 1)
        width == Len(Visible(prevFrame))
        after == lastX + Len(ov)
    IN (/\ mstat = "merged"
        /\ tr # <<>>
        /\ \E j \in 0..(Len(ov) - 1) : ov[j + 1] # "TAB" /\ lastX + j < width) =>
           IF after < width
           THEN Cells(frame_line, 1)[after + 1].esc = tr
           ELSE TrailingRun(frame_line, 1) = tr

\* The recorded runs put back before the visible character of their index,
\* the run of index Len(res) at the end.
RECURSIVE Reinsert(_, _, _)
Reinsert(res, m, i) ==
    IF i >= Len(res) THEN MapGet(m, i)
    ELSE MapGet(m, i) \o <<res[i + 1]>> \o Reinsert(res, m, i + 1)

\* C10: compress returns the visible characters with every escape run removed
\* and a map from visible-character index to the run that preceded that
\* index, and putting the runs back reproduces the input exactly.
C10_RoundTrip ==
    cout.done =>
        /\ cout.ok
        /\ cout.res = Visible(cin)
        /\ \A k \in DOMAIN cout.map :
            /\ k \in 0..Len(cout.res)
            /\ cout.map[k] # <<>>
            /\ cout.map[k] = IF k < Len(cout.res) THEN Cells(cin, 1)[k + 1].esc
                             ELSE TrailingRun(cin, 1)
        /\ Reinsert(cout.res, cout.map, 0) = cin

----------------------------------------------------------------------------
(* create_frame and render_to_frame: src/src/utils.rs *)

\* A frame has at most MaxHeight rows; a render output has at most MaxLines
\* lines; at most MaxRenders render_to_frame calls are followed.
MaxHeight == 2
MaxLines == 2
MaxRenders == 2

\* create_frame (utils.rs:141-143): height rows of width spaces.
create_frame(width, height) == [r \in 1..height |-> blank_row(width)]

\* str::split('\n') (utils.rs:79): the pieces between the line breaks, in
\* order; a string without a line break is one piece.
RECURSIVE split(_, _, _)
split(s, p, piece) ==
    IF p > Len(s) THEN <<piece>>
    ELSE IF s[p] = "NL" THEN <<piece>> \o split(s, p + 1, <<>>)
    ELSE split(s, p + 1, Append(piece, s[p]))

\* A test that also drops the line whose target is the last row.
in_frame_but_last(fr, row) == row + 1 < Len(fr)

\* (data.y + i) < frame.len() (utils.rs:80)
in_frame(fr, row) == row < Len(fr)

\* The for loop of render_to_frame (utils.rs:79-84); ok is FALSE when
\* merge_line panics.
RECURSIVE render_loop(_, _, _, _, _)
render_loop(fr, lines, x, y, i) ==
    IF i >= Len(lines) THEN [ok |-> TRUE, rows |-> fr]
    ELSE IF in_frame(fr, y + i)
    THEN LET m == merge_line(fr[y + i + 1], lines[i + 1], x) IN
         IF m.ok
         THEN render_loop([fr EXCEPT ![y + i + 1] = m.s], lines, x, y, i + 1)
         ELSE [ok |-> FALSE, rows |-> fr]
    ELSE render_loop(fr, lines, x, y, i + 1)

\* render_to_frame (utils.rs:77-85) for an element at x, y whose render
\* output is out.
render_to_frame(fr, out, x, y) == render_loop(fr, split(out, 1, <<>>), x, y, 0)

\* The lines of render outputs: plain text of one and of two bytes, text
\* after a transparent marker, and styled text as Style::write makes it.
FrameLines ==
    {<<"a">>, <<"e_acute">>, <<"TAB", "a">>,
     <<"ESC", "[", "1", "m", "a", "ESC", "[", "0", "m">>}

RECURSIVE join(_)
join(ls) ==
    IF Len(ls) = 1 THEN ls[1] ELSE ls[1] \o <<"NL">> \o join(Tail(ls))

Outputs == {join(ls) : ls \in UNION {[1..k -> FrameLines] : k \in 1..MaxLines}}

FrameInit ==
    /\ fwidth \in 0..MaxWidth
    /\ fheight \in 0..MaxHeight
    /\ rows = create_frame(fwidth, fheight)
    /\ lastOut = <<>>
    /\ lastPos = [x |-> 0, y |-> 0]
    /\ fstat = "init"
    /\ nrender = 0

\* A container renders one child into its frame.
RenderToFrame ==
    /\ fstat # "panic"
    /\ nrender < MaxRenders
    /\ \E out \in Outputs, x \in 0..MaxWidth, y \in 0..MaxHeight :
        LET r == render_to_frame(rows, out, x, y) IN
        /\ rows' = r.rows
        /\ fstat' = IF r.ok THEN "rendered" ELSE "panic"
        /\ lastOut' = out
        /\ lastPos' = [x |-> x, y |-> y]
    /\ nrender' = nrender + 1
    /\ UNCHANGED <<fwidth, fheight>>

InitFrame ==
    /\ FrameInit
    /\ ValueParked /\ TreeParked /\ ButtonParked /\ DocParked /\ NavParked
    /\ MergeParked /\ CompressParked /\ StyleParked /\ CycleParked
    /\ RenderParked

NextFrame ==
    RenderToFrame /\ UNCHANGED <<valueVars, treeVars, buttonVars, docVars, navVars, mergeVars, compressVars, styleVars, cycleVars, renderVars>>

SpecFrame == InitFrame /\ [][NextFrame]_vars

\* The lines of the last render output, and the row line i is aimed at.
OutLines == split(lastOut, 1, <<>>)

\* C11: render_to_frame replaces row y+i by merge_line(old row, line i, x) for
\* exactly the lines i with y+i below the frame height; a line aimed at or
\* past the frame height is dropped and causes no failure (the call fails
\* only if the merge of a line that is in range fails), and every row that is
\* not a target row is left as it was.
C11_Clipping ==
    [][LET lines == split(lastOut', 1, <<>>)
           x == lastPos'.x
           y == lastPos'.y
           targets == {i \in 0..(Len(lines) - 1) : y + i < Len(rows)}
       IN (\A i \in targets : merge_line(rows[y + i + 1], lines[i + 1], x).ok) =>
              /\ fstat' = "rendered"
              /\ Len(rows') = Len(rows)
              /\ \A r \in 0..(Len(rows) - 1) :
                    rows'[r + 1] =
                        IF r - y \in targets
                        THEN merge_line(rows[r + 1], lines[r - y + 1], x).s
                        ELSE rows[r + 1]
      ]_vars

\* A two-line output at the last row of a two-row frame: the first line is
\* merged into that row, the second is dropped, the row above is untouched.
C11_Witness ==
    /\ fstat = "rendered" /\ nrender = 1
    /\ fheight = 2 /\ fwidth = 2 /\ lastPos = [x |-> 1, y |-> 1]
    /\ OutLines = <<<<"a">>, <<"a">>>>
    /\ rows = <<<<" ", " ">>, <<" ", "a">>>>

\* C20: a frame made by create_frame(width, height) has height rows of width
\* spaces, and after any sequence of render_to_frame calls it still has
\* exactly height rows of exactly width visible characters each; no call
\* fails.
C20_FrameShape ==
    /\ fstat # "panic"
    /\ Len(rows) = fheight
    /\ \A r \in 1..Len(rows) : Len(Visible(rows[r])) = fwidth
    /\ fstat = "init" => \A r \in 1..Len(rows) : rows[r] = [i \in 1..fwidth |-> " "]

----------------------------------------------------------------------------
(* Style: src/src/ui.rs *)

\* A string is a sequence of pieces here: an escape sequence is one piece.
\* enum Color (ui.rs:187-199) and Color::ansi / ansi_bg (ui.rs:202-234)
color_ansi(c) ==
    CASE c = "None" -> <<>>
      [] c = "Red" -> <<"ESC[31m">>
      [] c = "Green" -> <<"ESC[32m">>
      [] c = "Blue" -> <<"ESC[34m">>
      [] c = "Magenta" -> <<"ESC[35m">>

color_ansi_bg(c) ==
    CASE c = "None" -> <<>>
      [] c = "Red" -> <<"ESC[41m">>
      [] c = "Green" -> <<"ESC[42m">>
      [] c = "Blue" -> <<"ESC[44m">>
      [] c = "Magenta" -> <<"ESC[45m">>

\* enum Font (ui.rs:148-157): a kind, and the members of a Mul.
Font(k, v) == [k |-> k, v |-> v]
FontNone == Font("None", <<>>)

\* Font::ansi (ui.rs:160-176)
RECURSIVE font_ansi(_)
font_ansi(f) ==
    CASE f.k = "None" -> <<>>
      [] f.k = "Bold" -> <<"ESC[1m">>
      [] f.k = "Italic" -> <<"ESC[3m">>
      [] f.k = "Underline" -> <<"ESC[4m">>
      [] f.k = "Strike" -> <<"ESC[9m">>
      [] f.k = "Mul" ->
            IF f.v = <<>> THEN <<>>
            ELSE font_ansi(Font(Head(f.v), <<>>)) \o font_ansi(Font("Mul", Tail(f.v)))

\* A prioritize that always keeps the base field.
prioritize_primary(self, secondary) == self

\* Color::prioritize (ui.rs:236-243)
prioritize(self, secondary) == IF secondary = "None" THEN self ELSE secondary

\* Font::prioritize (ui.rs:178-184)
font_prioritize(self, secondary) == IF secondary = FontNone THEN self ELSE secondary

\* Style::get (ui.rs:71-87)
get(st) ==
    IF st.is_active
    THEN color_ansi(prioritize(st.fg, st.hover_fg))
            \o color_ansi_bg(prioritize(st.bg, st.hover_bg))
            \o font_ansi(font_prioritize(st.font, st.hover_font))
    ELSE color_ansi(st.fg) \o color_ansi_bg(st.bg) \o font_ansi(st.font)

\* Style::get_outline (ui.rs:89-95)
get_outline(st) ==
    IF st.is_active THEN color_ansi(prioritize(st.outline, st.hover_outline))
    ELSE color_ansi(st.outline)

\* Style::get_clicked (ui.rs:97-104)
get_clicked(st) ==
    color_ansi(prioritize(st.fg, st.clicked_fg))
        \o color_ansi_bg(prioritize(st.bg, st.clicked_bg))
        \o font_ansi(font_prioritize(st.font, st.clicked_font))

\* Style::get_selected (ui.rs:106-113)
get_selected(st) ==
    color_ansi(prioritize(st.fg, st.selected_fg))
        \o color_ansi_bg(prioritize(st.bg, st.selected_bg))
        \o font_ansi(font_prioritize(st.font, st.selected_font))

\* Style::get_cursor (ui.rs:115-125)
get_cursor(st) ==
    IF st.is_active
    THEN color_ansi(prioritize(st.cursor_fg, st.hover_cursor_fg))
            \o color_ansi_bg(prioritize(st.cursor_bg, st.hover_cursor_bg))
    ELSE color_ansi(st.cursor_fg) \o color_ansi_bg(st.cursor_bg)

\* Style::write and its variants (ui.rs:127-145)
write(prefix, text) == prefix \o text \o <<"ESC[0m">>

\* impl Default for Style (ui.rs:39-68)
StyleDefault ==
    [bg |-> "None", fg |-> "None", outline |-> "None", font |-> FontNone,
     hover_bg |-> "None", hover_fg |-> "None", hover_outline |-> "None",
     hover_font |-> FontNone, hover_cursor_fg |-> "None", hover_cursor_bg |-> "None",
     clicked_bg |-> "None", clicked_fg |-> "None", clicked_outline |-> "None",
     clicked_font |-> FontNone,
     selected_bg |-> "None", selected_fg |-> "None", selected_font |-> FontNone,
     cursor_fg |-> "None", cursor_bg |-> "None", is_active |-> FALSE]

\* The values an author gives the fields: each layer its own colour and font,
\* or nothing.
BaseColor == {"None", "Red"}
HoverColor == {"None", "Blue"}
ClickedColor == {"None", "Green"}
SelectedColor == {"None", "Magenta"}
BaseFont == {FontNone, Font("Bold", <<>>)}
HoverFont == {FontNone, Font("Underline", <<>>)}
ClickedFont == {FontNone, Font("Italic", <<>>)}
SelectedFont == {FontNone, Font("Mul", <<"Bold", "Strike">>)}

\* Styles with the text families (fg, bg, font) set in any combination, and
\* styles with the outline and cursor families set in any combination.
TextStyles ==
    {[StyleDefault EXCEPT
        !.fg = t.fg, !.hover_fg = t.hover_fg, !.clicked_fg = t.clicked_fg,
        !.selected_fg = t.selected_fg,
        !.bg = t.bg, !.hover_bg = t.hover_bg, !.clicked_bg = t.clicked_bg,
        !.selected_bg = t.selected_bg,
        !.font = t.font, !.hover_font = t.hover_font,
        !.clicked_font = t.clicked_font, !.selected_font = t.selected_font,
        !.is_active = t.is_active] :
     t \in [fg : BaseColor, hover_fg : HoverColor, clicked_fg : ClickedColor,
            selected_fg : SelectedColor,
            bg : BaseColor, hover_bg : HoverColor, clicked_bg : ClickedColor,
            selected_bg : SelectedColor,
            font : BaseFont, hover_font : HoverFont, clicked_font : ClickedFont,
            selected_font : SelectedFont, is_active : BOOLEAN]}

FrameStyles ==
    {[StyleDefault EXCEPT
        !.outline = t.outline, !.hover_outline = t.hover_outline,
        !.clicked_outline = t.clicked_outline,
        !.cursor_fg = t.cursor_fg, !.hover_cursor_fg = t.hover_cursor_fg,
        !.cursor_bg = t.cursor_bg, !.hover_cursor_bg = t.hover_cursor_bg,
        !.is_active = t.is_active] :
     t \in [outline : BaseColor, hover_outline : HoverColor,
            clicked_outline : ClickedColor,
            cursor_fg : BaseColor, hover_cursor_fg : HoverColor,
            cursor_bg : BaseColor, hover_cursor_bg : HoverColor,
            is_active : BOOLEAN]}

StyleInit ==
    /\ style \in TextStyles \cup FrameStyles
    /\ sout = [done |-> FALSE]

\* A render method writes its text once with each of the Style's methods.
StyleWrite ==
    /\ ~sout.done
    /\ sout' = [done |-> TRUE,
                prefix |-> get(style),
                normal |-> write(get(style), <<"a">>),
                outline |-> write(get_outline(style), <<"a">>),
                clicked |-> write(get_clicked(style), <<"a">>),
                selected |-> write(get_selected(style), <<"a">>),
                cursor |-> write(get_cursor(style), <<"a">>)]
    /\ UNCHANGED style

InitStyle ==
    /\ StyleInit
    /\ ValueParked /\ TreeParked /\ ButtonParked /\ DocParked /\ NavParked
    /\ MergeParked /\ CompressParked /\ FrameParked /\ CycleParked
    /\ RenderParked

NextStyle ==
    StyleWrite /\ UNCHANGED <<valueVars, treeVars, buttonVars, docVars, navVars, mergeVars, compressVars, frameVars, cycleVars, renderVars>>

SpecStyle == InitStyle /\ [][NextStyle]_vars

\* The escape sequence of a field of the foreground, background and font
\* family; an unset field has none.
FgCode(c) ==
    IF c = "None" THEN <<>>
    ELSE <<[Red |-> "ESC[31m", Green |-> "ESC[32m", Blue |-> "ESC[34m",
            Magenta |-> "ESC[35m"][c]>>
BgCode(c) ==
    IF c = "None" THEN <<>>
    ELSE <<[Red |-> "ESC[41m", Green |-> "ESC[42m", Blue |-> "ESC[44m",
            Magenta |-> "ESC[45m"][c]>>
FontCode(f) ==
    IF f = FontNone THEN <<>>
    ELSE IF f.k = "Mul" THEN <<"ESC[1m", "ESC[9m">>
    ELSE <<[Bold |-> "ESC[1m", Italic |-> "ESC[3m", Underline |-> "ESC[4m"][f.k]>>

\* The layer field when the layer applies and the field is set, the base
\* field otherwise.
Layered(applies, over, base, unset) ==
    IF applies /\ over # unset THEN over ELSE base

\* C13: each family is resolved on its own. The Idle prefix is made of the
\* base fields; the Hovered prefix of the hover field where it is set and the
\* base field where not; the Clicked and Selected prefixes of the clicked and
\* selected field where set and the base field where not, whatever the hover
\* fields and the active flag are; an unset field adds nothing, and the text
\* is followed by the reset sequence.
C13_StyleResolution ==
    sout.done =>
        LET st == style
            hov == st.is_active
            text == <<"a">>
            reset == <<"ESC[0m">>
        IN /\ sout.normal =
                FgCode(Layered(hov, st.hover_fg, st.fg, "None"))
                    \o BgCode(Layered(hov, st.hover_bg, st.bg, "None"))
                    \o FontCode(Layered(hov, st.hover_font, st.font, FontNone))
                    \o text \o reset
           /\ sout.outline =
                FgCode(Layered(hov, st.hover_outline, st.outline, "None"))
                    \o text \o reset
           /\ sout.cursor =
                FgCode(Layered(hov, st.hover_cursor_fg, st.cursor_fg, "None"))
                    \o BgCode(Layered(hov, st.hover_cursor_bg, st.cursor_bg, "None"))
                    \o text \o reset
           /\ sout.clicked =
                FgCode(Layered(TRUE, st.clicked_fg, st.fg, "None"))
                    \o BgCode(Layered(TRUE, st.clicked_bg, st.bg, "None"))
                    \o FontCode(Layered(TRUE, st.clicked_font, st.font, FontNone))
                    \o text \o reset
           /\ sout.selected =
                FgCode(Layered(TRUE, st.selected_fg, st.fg, "None"))
                    \o BgCode(Layered(TRUE, st.selected_bg, st.bg, "None"))
                    \o FontCode(Layered(TRUE, st.selected_font, st.font, FontNone))
                    \o text \o reset

\* An active style with fg set in base and hover, bg in base only, font in
\* hover only, and clicked fg set: hover fg, base bg and hover font when
\* written normally; clicked fg and base bg when written clicked.
C13_Witness ==
    /\ sout.done /\ style.is_active
    /\ style.fg = "Red" /\ style.hover_fg = "Blue" /\ style.clicked_fg = "Green"
    /\ style.bg = "Red" /\ style.hover_bg = "None" /\ style.clicked_bg = "None"
    /\ style.font = FontNone /\ style.hover_font # FontNone
    /\ style.clicked_font = FontNone
    /\ sout.normal = <<"ESC[34m", "ESC[41m", "ESC[4m", "a", "ESC[0m">>
    /\ sout.clicked = <<"ESC[32m", "ESC[41m", "a", "ESC[0m">>

----------------------------------------------------------------------------
(* Focus cycling of tab and menu: src/src/ui.rs *)

\* A tab or menu has at most MaxItems children here; at most MaxPresses keys
\* are followed.
MaxItems == 3
MaxPresses == 3

\* The keys a tab and a menu move their focus on.
CycleKeys == {"Tab", "ShiftTab", "Up", "Down"}

\* A tab and a menu over n text items, focused on item f.
Items(n) == [i \in 1..n |-> Widget("text", "a", 0, i - 1, 0, <<>>)]

CycleInit ==
    /\ \E kind \in {"tab", "menu"}, n \in 1..MaxItems :
        \E f \in 0..(n - 1) :
            /\ root = Widget(kind, "c", 0, 0, f, Items(n))
            /\ start = f
    /\ presses = <<>>
    /\ before = root
    /\ lastKey = ""
    /\ lastAns = ResponseNone
    /\ failed = FALSE
    /\ nev = 0
    /\ overflow_checks \in BOOLEAN

\* The runtime hands one of the focus keys to the tab or menu.
CycleKey ==
    /\ ~failed
    /\ Len(presses) < MaxPresses
    /\ \E k \in CycleKeys :
        LET r == Event(root, k, ResponseNone) IN
        /\ root' = IF r.panic THEN root ELSE r.node
        /\ failed' = r.panic
        /\ lastKey' = k
        /\ presses' = Append(presses, k)
    /\ before' = root
    /\ nev' = nev + 1
    /\ UNCHANGED <<lastAns, overflow_checks, start>>

InitCycle ==
    /\ CycleInit
    /\ ValueParked /\ ButtonParked /\ DocParked /\ NavParked
    /\ MergeParked /\ CompressParked /\ FrameParked /\ StyleParked
    /\ RenderParked

NextCycle ==
    CycleKey /\ UNCHANGED <<valueVars, buttonVars, docVars, navVars, mergeVars, compressVars, frameVars, styleVars, renderVars>>

SpecCycle == InitCycle /\ [][NextCycle]_vars

\* The key that moves the focus of a tab or menu forward, and backward.
ForwardKey(n) == IF n.kind = "tab" THEN "Tab" ELSE "Down"
BackwardKey(n) == IF n.kind = "tab" THEN "ShiftTab" ELSE "Up"

\* C14: on a tab with n >= 1 children Tab moves the focus index from i to
\* (i+1) mod n and ShiftTab to (i-1) mod n, and on a menu with n >= 1 items
\* Down and Up do the same; so n presses in one direction return to the
\* starting index, and a forward press followed by a backward press is the
\* identity. No press fails.
C14_CyclicFocus ==
    LET n == Len(root.children) IN
    /\ ~failed
    /\ lastKey = ForwardKey(before) => root.child = (before.child + 1) % n
    /\ lastKey = BackwardKey(before) => root.child = (before.child - 1) % n
    /\ root.children = before.children
    /\ (Len(presses) = n /\ \A i \in 1..n : presses[i] = ForwardKey(root)) =>
            root.child = start
    /\ (Len(presses) = n /\ \A i \in 1..n : presses[i] = BackwardKey(root)) =>
            root.child = start
    /\ presses = <<ForwardKey(root), BackwardKey(root)>> => root.child = start
    /\ presses = <<BackwardKey(root), ForwardKey(root)>> => root.child = start

\* Three items, focus on the first: backward wraps to the last, and from
\* there forward wraps to the first again.
C14_Witness ==
    /\ Len(root.children) = 3 /\ start = 0
    /\ presses = <<BackwardKey(root), ForwardKey(root)>>
    /\ before.child = 2 /\ root.child = 0

----------------------------------------------------------------------------
(* Render pass over a tree: src/src/ui.rs, src/src/ui/elements.rs *)

\* Widths and heights are 0..MaxSize; at most MaxPasses render passes and
\* MaxChanges focus or size changes are followed.
MaxSize == 3
MaxPasses == 2
MaxChanges == 2

\* A widget with the fields a render reads and writes: its size, the
\* is_active flag of its style, the size it was declared with (dw, dh), and
\* the state its render was last called in (rstate: -1 not rendered in this
\* pass, 0 idle, 1 active).
RNode(kind, x, child, children, dw, dh) ==
    [kind |-> kind, id |-> "n", x |-> x, y |-> 0,
     child |-> child, children |-> children,
     width |-> dw, height |-> dh, dw |-> dw, dh |-> dh,
     is_active |-> FALSE, rstate |-> -1]

\* Before a pass no widget is rendered yet.
RECURSIVE ClearPass(_)
ClearPass(n) ==
    [n EXCEPT !.rstate = -1,
              !.children = [i \in 1..Len(n.children) |-> ClearPass(n.children[i])]]

RenderOutcome(node, ok) == [node |-> node, ok |-> ok]

\* child.style.is_active = true (ui.rs:432)
tab_child_active(this) == TRUE

\* The render method of widget n; state is the parameter of the render
\* methods of ui/elements.rs, the components of ui.rs read their own
\* style.is_active instead.
RECURSIVE render_widget(_, _)
render_widget(n, state) ==
    CASE n.kind = "Div" ->
            \* Div::render (elements.rs:95-105)
            LET rs == [i \in 1..Len(n.children) |->
                          render_widget(n.children[i],
                                        IF i - 1 = n.child THEN state ELSE 0)]
            IN RenderOutcome([n EXCEPT !.rstate = state,
                                       !.children = [i \in 1..Len(rs) |-> rs[i].node]],
                             \A i \in 1..Len(rs) : rs[i].ok)
      [] n.kind = "div" ->
            \* div::render (ui.rs:298-311)
            LET rs == [i \in 1..Len(n.children) |->
                          LET child == n.children[i] IN
                          render_widget(
                              [child EXCEPT
                                  !.width = IF @ = 0 THEN n.width ELSE @,
                                  !.height = IF @ = 0 THEN n.height ELSE @,
                                  !.is_active = n.is_active /\ i - 1 = n.child],
                              0)]
            IN RenderOutcome([n EXCEPT !.rstate = IF n.is_active THEN 1 ELSE 0,
                                       !.children = [i \in 1..Len(rs) |-> rs[i].node]],
                             \A i \in 1..Len(rs) : rs[i].ok)
      [] n.kind = "tab" ->
            \* tab::render (ui.rs:421-444): this.height - 1 and
            \* (this.width / 2) - this.children.len() are usize subtractions
            LET n1 == [n EXCEPT !.rstate = IF n.is_active THEN 1 ELSE 0] IN
            IF n.height = 0 THEN RenderOutcome(n1, FALSE)
            ELSE LET r == IF has_child(n)
                          THEN LET child == get_child(n) IN
                               render_widget(
                                   [child EXCEPT
                                       !.width = IF @ = 0 THEN n.width ELSE @,
                                       !.height = IF @ = 0 THEN n.height ELSE @,
                                       !.is_active = tab_child_active(n)],
                                   0)
                          ELSE RenderOutcome(NoElem, TRUE)
                     n2 == IF has_child(n)
                           THEN [n1 EXCEPT !.children[n.child + 1] = r.node]
                           ELSE n1
                 IN RenderOutcome(n2, r.ok /\ (n.width \div 2) >= Len(n.children))
      [] n.kind = "text" ->
            \* text::render (ui.rs:332-334)
            RenderOutcome([n EXCEPT !.rstate = IF n.is_active THEN 1 ELSE 0], TRUE)
      [] OTHER ->
            \* Text::render, Button::render (elements.rs:21-23, 51-56)
            RenderOutcome([n EXCEPT !.rstate = state], TRUE)

\* The trees that are rendered: leaves declared with a size or with size 0,
\* a div over two texts, a div over two tabs, a tab over a div, and a Div
\* over an element and a Div.
LeafSizes == {<<0, 0>>, <<1, 1>>}

RenderTrees ==
    LET text(x, sz) == RNode("text", x, 0, <<>>, sz[1], sz[2])
        elem(x) == RNode("Elem", x, 0, <<>>, 1, 1)
    IN UNION {
        {RNode("div", 0, f, <<text(0, a), text(1, b)>>, w, h),
         RNode("div", 0, f, <<RNode("tab", 0, 0, <<text(0, a)>>, 0, 0),
                              RNode("tab", 1, 0, <<text(0, b)>>, 0, 0)>>, w, h),
         RNode("tab", 0, 0, <<RNode("div", 0, f, <<text(0, a), text(1, b)>>, 0, 0)>>, w, h),
         RNode("Div", 0, f, <<elem(0), RNode("Div", 1, 0, <<elem(0)>>, 1, 1)>>, w, h)} :
        f \in {0, 1}, a \in LeafSizes, b \in LeafSizes,
        w \in 1..MaxSize, h \in 1..MaxSize}

RenderInit ==
    /\ rtree \in RenderTrees
    /\ rstat = "init"
    /\ npass = 0
    /\ nchange = 0

\* The runtime renders the root, idle or active.
RenderPass ==
    /\ rstat # "panic"
    /\ npass < MaxPasses
    /\ \E state \in {0, 1} :
        LET r == render_widget([ClearPass(rtree) EXCEPT !.is_active = (state = 1)],
                               state)
        IN /\ rtree' = r.node
           /\ rstat' = IF r.ok THEN "rendered" ELSE "panic"
    /\ npass' = npass + 1
    /\ UNCHANGED nchange

\* A key that moves the focus of a container on the focus path.
FocusKey ==
    /\ rstat # "panic"
    /\ nchange < MaxChanges
    /\ \E k \in {"Left", "Right", "Tab", "ShiftTab"} :
        LET r == Event(rtree, k, ResponseNone) IN
        /\ ~r.panic
        /\ r.node # rtree
        /\ rtree' = r.node
    /\ rstat' = "changed"
    /\ nchange' = nchange + 1
    /\ UNCHANGED npass

\* The terminal is resized: the root gets a new size.
Resize ==
    /\ rstat # "panic"
    /\ nchange < MaxChanges
    /\ \E w \in 1..MaxSize, h \in 1..MaxSize :
        /\ <<w, h>> # <<rtree.width, rtree.height>>
        /\ rtree' = [rtree EXCEPT !.width = w, !.height = h]
    /\ rstat' = "changed"
    /\ nchange' = nchange + 1
    /\ UNCHANGED npass

InitRender ==
    /\ RenderInit
    /\ ValueParked /\ TreeParked /\ ButtonParked /\ DocParked /\ NavParked
    /\ MergeParked /\ CompressParked /\ FrameParked /\ StyleParked
    /\ CycleParked

RenderOthers ==
    <<valueVars, treeVars, buttonVars, docVars, navVars, mergeVars, compressVars,
      frameVars, styleVars, cycleVars>>

NextRender ==
    \/ RenderPass /\ UNCHANGED RenderOthers
    \/ FocusKey /\ UNCHANGED RenderOthers
    \/ Resize /\ UNCHANGED RenderOthers

SpecRender == InitRender /\ [][NextRender]_vars

\* Every highlighted child under n is the focused child of a highlighted
\* parent.
RECURSIVE FocusPathOnly(_)
FocusPathOnly(n) ==
    \A i \in 1..Len(n.children) :
        /\ n.children[i].rstate > 0 => (i - 1 = n.child /\ n.rstate > 0)
        /\ FocusPathOnly(n.children[i])

\* The number of highlighted leaves under n.
RECURSIVE HighlightedLeaves(_)
HighlightedLeaves(n) ==
    IF n.children = <<>> THEN (IF n.rstate > 0 THEN 1 ELSE 0)
    ELSE LET RECURSIVE sum(_)
             sum(i) == IF i > Len(n.children) THEN 0
                       ELSE HighlightedLeaves(n.children[i]) + sum(i + 1)
         IN sum(1)

\* C18: in every render pass, after any focus changes, a child is rendered
\* non-idle only if it is the focused child of its parent and the parent was
\* rendered non-idle; every other child is rendered idle, so at most one leaf
\* is highlighted.
C18_FocusPathHighlight ==
    rstat = "rendered" =>
        /\ FocusPathOnly(rtree)
        /\ HighlightedLeaves(rtree) <= 1

\* Every child rendered by a div or tab under n was rendered with its
\* parent's width (height) if declared with 0, with its declared one if not.
RECURSIVE SizesResolved(_)
SizesResolved(n) ==
    \A i \in 1..Len(n.children) :
        LET c == n.children[i] IN
        /\ (n.kind \in {"div", "tab"} /\ n.rstate >= 0 /\ c.rstate >= 0) =>
            /\ c.width = IF c.dw = 0 THEN n.width ELSE c.dw
            /\ c.height = IF c.dh = 0 THEN n.height ELSE c.dh
        /\ SizesResolved(c)

\* C19: in every render pass of a div or tab, after any renders and changes
\* of the parent's size, a child declared with width (height) 0 is rendered
\* with the parent's current width (height), and a child declared with a
\* non-zero size with its declared size.
C19_SizeInheritance == rstat = "rendered" => SizesResolved(rtree)

====
